---- MODULE Spec2Model ----
(***************************************************************************)
(* Model of the nary dependency resolver (nary_lib/src/deps.rs) and of the *)
(* version matcher it drives (nary_lib/src/lib.rs).                        *)
(*                                                                         *)
(* Strings of the program are TLA+ strings.  JSON values are records with  *)
(* a "type" field; a JSON object is the sequence of its (key, value)       *)
(* entries in the order Map::iter() yields them.                           *)
(***************************************************************************)
EXTENDS Integers, Sequences, FiniteSets, TLC

VARIABLES
    root_pkg,   \* calculate_depends: root_pkg
    deps,       \* calculate_depends: deps
    registry,   \* the registry's canned responses for this run
    map,        \* BidirMap<Dependency, DependencyId>: sequence of pairs
    graph,      \* DiGraphMap<DependencyId, i32>
    stack,      \* activation records of calculate_depends_rec, innermost last
    pc,         \* "rec" | "toposort" | "done" | "idle"
    fetches,    \* registry requests issued so far, oldest first
    outcome,    \* what calculate_depends returned
    run,        \* number of the calculate_depends call in progress
    prev,       \* outcome of the previous calculate_depends call
    m_dep,      \* fetch_matching_version_metadata: dep
    m_meta,     \* fetch_matching_version_metadata: root_metadata
    m_res,      \* fetch_matching_version_metadata: returned value
    i_res       \* install_dep: returned value and the version it unpacked

vars == <<root_pkg, deps, registry, map, graph, stack, pc, fetches, outcome,
          run, prev, m_dep, m_meta, m_res, i_res>>

resolverVars == <<root_pkg, deps, registry, map, graph, stack, pc, fetches,
                  outcome, run, prev>>

matcherVars == <<m_dep, m_meta, m_res, i_res>>

(***************************************************************************)
(* Bounds                                                                  *)
(***************************************************************************)
MaxRootDeps == 2    \* longest deps vector handed to calculate_depends
MaxVersions == 3    \* most keys in a "versions" object handed to the matcher

None == [tag |-> "none"]

(***************************************************************************)
(* Sequence helpers                                                        *)
(***************************************************************************)
SeqsUpTo(S, n) == UNION {[1..k -> S] : k \in 0..n}

Range(s) == {s[i] : i \in DOMAIN s}

NoDup(s) == \A i, j \in DOMAIN s : s[i] = s[j] => i = j

Reverse(s) == [i \in 1..Len(s) |-> s[Len(s) + 1 - i]]

(***************************************************************************)
(* Dependency                                                              *)
(***************************************************************************)
Dependency(n, v) == [name |-> n, version |-> v]

\* an equality that looks at the name only
DependencyEqByName(x, y) == x.name = y.name

\* #[derive(PartialEq, Eq, Hash)]: both fields
DependencyEq(x, y) == x.name = y.name /\ x.version = y.version

(***************************************************************************)
(* JSON values (serde_json::Value)                                         *)
(***************************************************************************)
JNull == [type |-> "null"]
JNumber == [type |-> "number"]
JString(s) == [type |-> "string", str |-> s]
JObject(es) == [type |-> "object", entries |-> es]
JEntry(k, v) == [key |-> k, value |-> v]

\* Value::as_object
as_object(v) == IF v.type = "object" THEN [tag |-> "some", entries |-> v.entries] ELSE None

\* Value::as_str
as_str(v) == IF v.type = "string" THEN [tag |-> "some", str |-> v.str] ELSE None

(***************************************************************************)
(* semver_rs: Version::new(s).parse(), Range::new(s).parse(), Range::test  *)
(* over the strings that occur in the model.  A version is <<major, minor, *)
(* patch>>; a range is the half-open interval [lo, hi).                    *)
(***************************************************************************)
VersionStrings == {"1.0.0", "1.1.0", "1.2.5", "2.0.0", "latest"}

ConstraintStrings == {"^1.0.0", "^1.2.0", "^2.0.0", "^3.0.0", "1.0.0", "git://c"}

VersionParse(s) ==
    CASE s = "1.0.0" -> [tag |-> "ok", v |-> <<1, 0, 0>>]
      [] s = "1.1.0" -> [tag |-> "ok", v |-> <<1, 1, 0>>]
      [] s = "1.2.5" -> [tag |-> "ok", v |-> <<1, 2, 5>>]
      [] s = "2.0.0" -> [tag |-> "ok", v |-> <<2, 0, 0>>]
      [] OTHER -> [tag |-> "err"]

RangeParse(s) ==
    CASE s = "^1.0.0" -> [tag |-> "ok", lo |-> <<1, 0, 0>>, hi |-> <<2, 0, 0>>]
      [] s = "^1.2.0" -> [tag |-> "ok", lo |-> <<1, 2, 0>>, hi |-> <<2, 0, 0>>]
      [] s = "^2.0.0" -> [tag |-> "ok", lo |-> <<2, 0, 0>>, hi |-> <<3, 0, 0>>]
      [] s = "^3.0.0" -> [tag |-> "ok", lo |-> <<3, 0, 0>>, hi |-> <<4, 0, 0>>]
      [] s = "1.0.0" -> [tag |-> "ok", lo |-> <<1, 0, 0>>, hi |-> <<1, 0, 1>>]
      [] OTHER -> [tag |-> "err"]

VLess(a, b) ==
    \/ a[1] < b[1]
    \/ a[1] = b[1] /\ a[2] < b[2]
    \/ a[1] = b[1] /\ a[2] = b[2] /\ a[3] < b[3]

RangeTest(r, v) == ~VLess(v, r.lo) /\ VLess(v, r.hi)

(***************************************************************************)
(* Errors (anyhow::Error), tagged with the message that creates them       *)
(***************************************************************************)
Err(kind, about) == [tag |-> "err", kind |-> kind, about |-> about]

ConstraintParseError(dep) == Err("ConstraintParseError", dep)       \* "Version {} of {} didn't parse"
VersionParseError(v) == Err("VersionParseError", v)                 \* "{} didn't parse"
VersionsNotObject == Err("RegistryFetchError", "versions")          \* "Versions was not a JSON object"
NoMatchingVersionError == Err("NoMatchingVersionError", "")         \* "ho matching version"
RegistryFetchError(url) == Err("RegistryFetchError", url)           \* "Couldn't GET URL: ..."
CyclicDependencyError(d) == Err("CyclicDependencyError", d)         \* "Cyclic dependency {:?}"
Panic == [tag |-> "panic"]

(***************************************************************************)
(* lib.rs: fetch_matching_version_metadata                                 *)
(***************************************************************************)
\* versions.iter().rev(): the positions of the entries, in the order visited
VisitOrderForward(n) == [i \in 1..n |-> i]
VisitOrder(n) == [i \in 1..n |-> n + 1 - i]

\* A matching version that ignores a version that does not parse
RECURSIVE MatchLoopSkip(_, _, _, _)
MatchLoopSkip(required_version, versions, order, k) ==
    IF k > Len(order)
    THEN [res |-> NoMatchingVersionError, visited |-> order]
    ELSE LET version == versions[order[k]]
             parsed == VersionParse(version.key)
         IN  IF parsed.tag = "ok" /\ RangeTest(required_version, parsed.v)
             THEN [res |-> [tag |-> "ok", version |-> version.key],
                   visited |-> SubSeq(order, 1, k)]
             ELSE MatchLoopSkip(required_version, versions, order, k + 1)

\* the for loop of lines 147-164, from the k-th visited entry on
RECURSIVE MatchLoop(_, _, _, _)
MatchLoop(required_version, versions, order, k) ==
    IF k > Len(order)
    THEN [res |-> NoMatchingVersionError, visited |-> order]
    ELSE LET version == versions[order[k]]
             parsed == VersionParse(version.key)
         IN  IF parsed.tag = "err"
             THEN [res |-> VersionParseError(version.key),
                   visited |-> SubSeq(order, 1, k)]
             ELSE IF RangeTest(required_version, parsed.v)
             THEN [res |-> [tag |-> "ok", version |-> version.key],
                   visited |-> SubSeq(order, 1, k)]
             ELSE MatchLoop(required_version, versions, order, k + 1)

\* res: Ok((version, _)) or the error; visited: positions of the version
\* strings that were parsed, in the order they were parsed
fetch_matching_version_metadata(dep, root_metadata) ==
    LET required_version == RangeParse(dep.version)
        versions == as_object(root_metadata.versions)
    IN  IF required_version.tag = "err"
        THEN [res |-> ConstraintParseError(dep), visited |-> <<>>]
        ELSE IF versions = None
        THEN [res |-> VersionsNotObject, visited |-> <<>>]
        ELSE MatchLoop(required_version, versions.entries,
                       VisitOrder(Len(versions.entries)), 1)

(***************************************************************************)
(* deps.rs: serde_json_value_to_dependencies                               *)
(***************************************************************************)
starts_with_underscore(k) == k \in {"_id", "_resolved"}

RECURSIVE AdaptLoop(_, _, _)
AdaptLoop(entries, k, vec) ==
    IF k > Len(entries)
    THEN [tag |-> "ok", deps |-> vec]
    ELSE LET dependency == entries[k]
         IN  IF ~starts_with_underscore(dependency.key)
             THEN IF as_str(dependency.value) = None
                  THEN Panic        \* Option::unwrap() on None
                  ELSE AdaptLoop(entries, k + 1,
                           Append(vec, Dependency(dependency.key,
                                           as_str(dependency.value).str)))
             ELSE AdaptLoop(entries, k + 1, vec)

serde_json_value_to_dependencies(json) ==
    IF as_object(json) = None
    THEN [tag |-> "ok", deps |-> <<>>]
    ELSE AdaptLoop(as_object(json).entries, 1, <<>>)

(***************************************************************************)
(* bidir_map::BidirMap: a vector of (first, second) pairs                  *)
(***************************************************************************)
Pair(d, id) == [first |-> d, second |-> id]

\* Vec::swap_remove: the last pair takes the place of the pair removed
swap_remove(m, pos) ==
    LET shorter == SubSeq(m, 1, Len(m) - 1)
    IN  IF pos = Len(m) THEN shorter ELSE [shorter EXCEPT ![pos] = m[Len(m)]]

\* Iterator::position: the index of the first pair that matches
position(m, Matches(_)) ==
    CHOOSE k \in DOMAIN m : Matches(m[k]) /\ \A j \in 1..(k - 1) : ~Matches(m[j])

contains_first_key(m, d) == \E k \in DOMAIN m : DependencyEq(m[k].first, d)

contains_second_key(m, id) == \E k \in DOMAIN m : m[k].second = id

get_by_first(m, d) ==
    IF contains_first_key(m, d)
    THEN LET Matches(p) == DependencyEq(p.first, d)
         IN  [tag |-> "some", id |-> m[position(m, Matches)].second]
    ELSE None

get_by_second(m, id) ==
    IF contains_second_key(m, id)
    THEN LET Matches(p) == p.second = id
         IN  [tag |-> "some", dep |-> m[position(m, Matches)].first]
    ELSE None

remove_by_second(m, id) ==
    LET Matches(p) == p.second = id
    IN  IF contains_second_key(m, id) THEN swap_remove(m, position(m, Matches)) ELSE m

remove_by_first(m, d) ==
    LET Matches(p) == DependencyEq(p.first, d)
    IN  IF contains_first_key(m, d) THEN swap_remove(m, position(m, Matches)) ELSE m

\* insert replaces a pair that has the same first or else the same second
map_insert(m, d, id) ==
    LET cleared == IF contains_first_key(m, d) THEN remove_by_first(m, d)
                   ELSE IF contains_second_key(m, id) THEN remove_by_second(m, id)
                   ELSE m
    IN  Append(cleared, Pair(d, id))

\* BidirMap::new() followed by map.insert(root_pkg.clone(), 0)
NewMap(root) == map_insert(<<>>, root, 0)

(***************************************************************************)
(* petgraph::graphmap::DiGraphMap: nodes in insertion order, each with its *)
(* adjacency list of (neighbour, direction) in insertion order, and the    *)
(* set of edges                                                            *)
(***************************************************************************)
NewGraph == [nodes |-> <<>>, adj |-> <<>>, edges |-> {}]

HasNode(g, n) == \E k \in DOMAIN g.nodes : g.nodes[k] = n

NodeIndex(g, n) == CHOOSE k \in DOMAIN g.nodes : g.nodes[k] = n

add_node(g, n) ==
    IF HasNode(g, n) THEN g
    ELSE [g EXCEPT !.nodes = Append(@, n), !.adj = Append(@, <<>>)]

PushAdj(g, n, entry) ==
    LET g1 == add_node(g, n)
    IN  [g1 EXCEPT !.adj[NodeIndex(g1, n)] = Append(@, entry)]

add_edge(g, a, b) ==
    IF <<a, b>> \in g.edges THEN g
    ELSE LET g1 == PushAdj([g EXCEPT !.edges = @ \cup {<<a, b>>}], a,
                           [n |-> b, dir |-> "Outgoing"])
         IN  IF a # b THEN PushAdj(g1, b, [n |-> a, dir |-> "Incoming"]) ELSE g1

\* neighbors_directed(n, dir), in adjacency-list order
NeighborsDirected(g, n, dir) ==
    LET adj == g.adj[NodeIndex(g, n)]
        RECURSIVE Sel(_)
        Sel(k) == IF k = 0 THEN <<>>
                  ELSE IF adj[k].dir = dir \/ adj[k].n = n
                  THEN Append(Sel(k - 1), adj[k].n)
                  ELSE Sel(k - 1)
    IN  Sel(Len(adj))

\* node_identifiers(): insertion order
NodeIdentifiers(g) == g.nodes

\* a node table that hands out its nodes in any order, as a hash map does
NodeOrdersAny(g) ==
    {[k \in DOMAIN g.nodes |-> p[g.nodes[k]]] : p \in Permutations(Range(g.nodes))}

\* the orders in which one call of node_identifiers() can hand out the
\* nodes: the graph keeps them in an index map, there is one order
NodeOrders(g) == {NodeIdentifiers(g)}

(***************************************************************************)
(* petgraph::algo::toposort                                                *)
(***************************************************************************)
\* a filter that forgets which nodes were discovered
UndiscoveredAll(ns, discovered) == ns

Undiscovered(ns, discovered) ==
    LET RECURSIVE Sel(_)
        Sel(k) == IF k = 0 THEN <<>>
                  ELSE IF ns[k] \notin discovered THEN Append(Sel(k - 1), ns[k])
                  ELSE Sel(k - 1)
    IN  Sel(Len(ns))

\* the while loop over dfs.stack
RECURSIVE FinishLoop(_, _, _, _, _)
FinishLoop(g, dfs_stack, discovered, finished, finish_stack) ==
    IF dfs_stack = <<>>
    THEN [tag |-> "ok", discovered |-> discovered, finished |-> finished,
          finish_stack |-> finish_stack]
    ELSE LET nx == dfs_stack[Len(dfs_stack)]
             succs == NeighborsDirected(g, nx, "Outgoing")
         IN  IF nx \notin discovered
             THEN IF nx \in Range(succs)
                  THEN [tag |-> "cycle", node |-> nx]
                  ELSE FinishLoop(g, dfs_stack \o Undiscovered(succs, discovered \cup {nx}),
                                  discovered \cup {nx}, finished, finish_stack)
             ELSE IF nx \notin finished
                  THEN FinishLoop(g, SubSeq(dfs_stack, 1, Len(dfs_stack) - 1),
                                  discovered, finished \cup {nx}, Append(finish_stack, nx))
                  ELSE FinishLoop(g, SubSeq(dfs_stack, 1, Len(dfs_stack) - 1),
                                  discovered, finished, finish_stack)

\* for i in g.node_identifiers()
RECURSIVE FinishOrder(_, _, _, _, _, _)
FinishOrder(g, ids, k, discovered, finished, finish_stack) ==
    IF k > Len(ids)
    THEN [tag |-> "ok", finish_stack |-> finish_stack]
    ELSE IF ids[k] \in discovered
    THEN FinishOrder(g, ids, k + 1, discovered, finished, finish_stack)
    ELSE LET r == FinishLoop(g, <<ids[k]>>, discovered, finished, finish_stack)
         IN  IF r.tag = "cycle" THEN r
             ELSE FinishOrder(g, ids, k + 1, r.discovered, r.finished, r.finish_stack)

\* a second pass that accepts every order
CycleCheckNone(g, order, k, discovered) == [tag |-> "ok", order |-> order]

\* a second pass that blames the first node of the order for any cycle
RECURSIVE CycleCheckBlameFirst(_, _, _, _)
CycleCheckBlameFirst(g, order, k, discovered) ==
    IF k > Len(order)
    THEN [tag |-> "ok", order |-> order]
    ELSE LET preds == Undiscovered(NeighborsDirected(g, order[k], "Incoming"),
                                   discovered \cup {order[k]})
         IN  IF preds # <<>>
             THEN [tag |-> "cycle", node |-> order[1]]
             ELSE CycleCheckBlameFirst(g, order, k + 1, discovered \cup {order[k]})

\* the second pass: a node with an undiscovered predecessor closes a cycle
RECURSIVE CycleCheck(_, _, _, _)
CycleCheck(g, order, k, discovered) ==
    IF k > Len(order)
    THEN [tag |-> "ok", order |-> order]
    ELSE LET preds == Undiscovered(NeighborsDirected(g, order[k], "Incoming"),
                                   discovered \cup {order[k]})
         IN  IF preds # <<>>
             THEN [tag |-> "cycle", node |-> preds[Len(preds)]]
             ELSE CycleCheck(g, order, k + 1, discovered \cup {order[k]})

\* toposort when node_identifiers() hands out the nodes in the order ids
toposort_over(g, ids) ==
    LET first == FinishOrder(g, ids, 1, {}, {}, <<>>)
    IN  IF first.tag = "cycle" THEN first
        ELSE CycleCheck(g, Reverse(first.finish_stack), 1, {})

toposort(g) == toposort_over(g, NodeIdentifiers(g))

(***************************************************************************)
(* deps.rs: calculate_depends, lines 35-51                                 *)
(***************************************************************************)
\* for i in dependency_ids { ... }
RECURSIVE OrderedDependencies(_, _, _, _)
OrderedDependencies(m, dependency_ids, k, ordered_dependencies) ==
    IF k > Len(dependency_ids)
    THEN [tag |-> "ok", ordered |-> ordered_dependencies, map |-> m]
    ELSE LET second == get_by_second(m, dependency_ids[k])
         IN  IF second = None THEN [tag |-> "panic", map |-> m]
             ELSE IF ~\E j \in DOMAIN ordered_dependencies :
                          DependencyEq(ordered_dependencies[j], second.dep)
             THEN OrderedDependencies(remove_by_second(m, dependency_ids[k]),
                      dependency_ids, k + 1, Append(ordered_dependencies, second.dep))
             ELSE OrderedDependencies(m, dependency_ids, k + 1, ordered_dependencies)

\* lines 35-51, when node_identifiers() hands out the nodes in the order
\* ids: what calculate_depends returns
LinearizeOver(m, g, ids) ==
    LET sorted == toposort_over(g, ids)
    IN  IF sorted.tag = "cycle"
        THEN CyclicDependencyError(get_by_second(m, sorted.node))
        ELSE LET r == OrderedDependencies(m, sorted.order, 1, <<>>)
             IN  IF r.tag = "ok" THEN [tag |-> "ok", ordered |-> r.ordered] ELSE Panic

\* lines 35-51: what calculate_depends returns
Linearize(m, g) == LinearizeOver(m, g, NodeIdentifiers(g))

\* lines 35-51, when node_identifiers() hands out the nodes in the order
\* ids: the map once the loop of line 42 has removed what it emitted
LinearizedMapOver(m, g, ids) ==
    LET sorted == toposort_over(g, ids)
    IN  IF sorted.tag = "cycle" THEN m
        ELSE OrderedDependencies(m, sorted.order, 1, <<>>).map

\* lines 35-51: the map once the loop of line 42 has removed what it emitted
LinearizedMap(m, g) == LinearizedMapOver(m, g, NodeIdentifiers(g))

(***************************************************************************)
(* The registry: canned responses of fetch_package_root_metadata (by       *)
(* package name) and fetch_package_version_metadata (by name and version)  *)
(***************************************************************************)
Response(body) == [tag |-> "ok", body |-> body]
Failure == [tag |-> "err"]

A == Dependency("a", "^1.0.0")
A2 == Dependency("a", "^2.0.0")
B == Dependency("b", "^1.0.0")
C == Dependency("c", "^1.0.0")
X == Dependency("c", "git://c")
R == Dependency("r", "1.0.0")

\* "r" is the root package, which the registry does not know
PackageNames == {"a", "b", "c", "r"}

\* {"versions": {key: {...}, ...}}
VersionsJson(keys) == [versions |-> JObject([i \in 1..Len(keys) |-> JEntry(keys[i], JNull)])]

\* {"dependencies": {name: constraint, ...}}
DependenciesJson(ds) ==
    [dependencies |-> JObject([i \in 1..Len(ds) |-> JEntry(ds[i].name, JString(ds[i].version))])]

\* what package "c" looks like in the registry
CShapes ==
    { [root |-> Response(VersionsJson(<<"1.0.0">>)), version |-> Response(DependenciesJson(<<>>))],
      [root |-> Response(VersionsJson(<<"1.0.0">>)), version |-> Response(DependenciesJson(<<B>>))],
      [root |-> Failure, version |-> Failure],
      [root |-> Response([versions |-> JNull]), version |-> Failure],
      [root |-> Response(VersionsJson(<<"1.0.0", "latest">>)), version |-> Response(DependenciesJson(<<>>))],
      [root |-> Response(VersionsJson(<<"2.0.0">>)), version |-> Failure],
      [root |-> Response(VersionsJson(<<"1.0.0">>)), version |-> Failure],
      [root |-> Response(VersionsJson(<<"1.0.0">>)), version |-> Response([dependencies |-> JNull])],
      [root |-> Response(VersionsJson(<<"1.0.0">>)),
       version |-> Response([dependencies |-> JObject(<<JEntry("b", JNumber)>>)])],
      [root |-> Response(VersionsJson(<<"1.0.0">>)),
       version |-> Response([dependencies |->
                      JObject(<<JEntry("_id", JNumber), JEntry("b", JString("^1.0.0"))>>)])] }

\* the dependencies declared by a@1.2.5, a@2.0.0 and b@1.0.0
DeclaredA1 == {<<>>, <<B>>, <<B, C>>, <<A>>, <<R>>}
DeclaredA2 == {<<>>, <<B>>}
DeclaredB == {<<>>, <<C>>, <<A>>, <<A2>>, <<X>>}

Registry(da1, da2, db, c) ==
    [root |-> [n \in PackageNames |->
                  CASE n = "a" -> Response(VersionsJson(<<"1.1.0", "1.2.5", "2.0.0">>))
                    [] n = "b" -> Response(VersionsJson(<<"1.0.0">>))
                    [] n = "c" -> c.root
                    [] OTHER -> Failure],
     version |-> [nv \in PackageNames \X VersionStrings |->
                  CASE nv = <<"a", "1.2.5">> -> Response(DependenciesJson(da1))
                    [] nv = <<"a", "2.0.0">> -> Response(DependenciesJson(da2))
                    [] nv = <<"b", "1.0.0">> -> Response(DependenciesJson(db))
                    [] nv = <<"c", "1.0.0">> -> c.version
                    [] OTHER -> Failure]]

Registries ==
    {Registry(da1, da2, db, c) : da1 \in DeclaredA1, da2 \in DeclaredA2,
                                 db \in DeclaredB, c \in CShapes}

RootDependencies == {A, A2, B, R}

(***************************************************************************)
(* deps.rs: calculate_depends and calculate_depends_rec, one action per    *)
(* step between two registry requests                                      *)
(***************************************************************************)
Running == [tag |-> "running"]

\* an activation of calculate_depends_rec: its curr_node, its remaining_deps,
\* the line it is at, the dependency popped last and the value computed last
Frame(curr_node, remaining_deps) ==
    [curr_node |-> curr_node, remaining_deps |-> remaining_deps, at |-> "loop",
     dependency |-> None, data |-> None]

Top == stack[Len(stack)]

SetTop(f) == [stack EXCEPT ![Len(stack)] = f]

InRec(at) == pc = "rec" /\ stack # <<>> /\ Top.at = at

Init ==
    /\ root_pkg = R
    /\ deps \in SeqsUpTo(RootDependencies, MaxRootDeps)
    /\ registry \in Registries
    /\ map = NewMap(root_pkg)
    /\ graph = NewGraph
    /\ stack = <<>>
    /\ pc = "start"
    /\ fetches = <<>>
    /\ outcome = Running
    /\ run = 1
    /\ prev = None
    /\ m_dep = None
    /\ m_meta = None
    /\ m_res = None
    /\ i_res = None

\* an error that is dropped: the loop goes on with the next dependency
FailIgnored(e) ==
    /\ outcome' = outcome
    /\ stack' = SetTop([Top EXCEPT !.at = "loop", !.data = None])
    /\ pc' = pc

\* the ? operator: the error is what calculate_depends returns
Fail(e) ==
    /\ outcome' = e
    /\ stack' = <<>>
    /\ pc' = "done"

\* Option::unwrap() on None: the thread panics, nothing is returned
Crash ==
    /\ outcome' = Panic
    /\ stack' = <<>>
    /\ pc' = "done"

\* an entry that keeps only the last dependency of the list
EnterLastOnly(dependency, ds) ==
    LET curr_node == get_by_first(map, dependency)
    IN  IF curr_node = None
        THEN Panic
        ELSE IF Len(ds) = 0
             THEN [tag |-> "ok", frames |-> <<>>]
             ELSE [tag |-> "ok", frames |-> <<Frame(curr_node.id, <<ds[Len(ds)]>>)>>]

\* the entry of calculate_depends_rec, lines 60-66: line 60 unwraps the id
\* of the dependency first and panics when the map does not hold it; then
\* an empty list returns Ok(()) at once, and any other list starts the loop
Enter(dependency, ds) ==
    LET curr_node == get_by_first(map, dependency)
    IN  IF curr_node = None
        THEN Panic
        ELSE IF Len(ds) = 0
             THEN [tag |-> "ok", frames |-> <<>>]
             ELSE [tag |-> "ok", frames |-> <<Frame(curr_node.id, ds)>>]

\* line 33: calculate_depends_rec(root_pkg, deps, &mut map, &mut graph)
Call ==
    /\ pc = "start"
    /\ LET entered == Enter(root_pkg, deps)
       IN  IF entered.tag = "panic"
           THEN Crash
           ELSE /\ stack' = entered.frames
                /\ pc' = IF stack' = <<>> THEN "toposort" ELSE "rec"
                /\ UNCHANGED outcome
    /\ UNCHANGED <<root_pkg, deps, registry, map, graph, fetches, run, prev>>
    /\ UNCHANGED matcherVars

\* the index of the first dependency
PopIndexFirst(remaining_deps) == 1

\* line 69: the index of the dependency the loop removes
PopIndex(remaining_deps) == Len(remaining_deps)

\* line 70: Vec::remove
RemoveAt(s, i) == SubSeq(s, 1, i - 1) \o SubSeq(s, i + 1, Len(s))

\* an id that is one too high
NextIdSkip(m) == Len(m) + 1

\* line 75: the id given to a new dependency
NextId(m) == Len(m)

\* a membership test that never finds the dependency
KnownNever(m, d) == FALSE

\* line 74
Known(m, d) == contains_first_key(m, d)

\* a new dependency that gets its node and its pair but no edge
PopNewNoEdge ==
    /\ InRec("loop")
    /\ Top.remaining_deps # <<>>
    /\ LET index == PopIndex(Top.remaining_deps)
           dependency == Top.remaining_deps[index]
           dependency_node == NextId(map)
       IN  /\ ~Known(map, dependency)
           /\ map' = map_insert(map, dependency, dependency_node)
           /\ graph' = add_node(graph, dependency_node)
           /\ stack' = SetTop([Top EXCEPT !.remaining_deps = RemoveAt(@, index),
                                          !.at = "fetch_root",
                                          !.dependency = get_by_second(map', dependency_node).dep])
    /\ UNCHANGED <<root_pkg, deps, registry, pc, fetches, outcome, run, prev>>
    /\ UNCHANGED matcherVars

\* lines 68-80: a dependency met for the first time
PopNew ==
    /\ InRec("loop")
    /\ Top.remaining_deps # <<>>
    /\ LET index == PopIndex(Top.remaining_deps)
           dependency == Top.remaining_deps[index]
           dependency_node == NextId(map)
       IN  /\ ~Known(map, dependency)
           /\ map' = map_insert(map, dependency, dependency_node)
           /\ graph' = add_edge(add_node(graph, dependency_node), dependency_node, Top.curr_node)
           /\ stack' = SetTop([Top EXCEPT !.remaining_deps = RemoveAt(@, index),
                                          !.at = "fetch_root",
                                          !.dependency = get_by_second(map', dependency_node).dep])
    /\ UNCHANGED <<root_pkg, deps, registry, pc, fetches, outcome, run, prev>>
    /\ UNCHANGED matcherVars

\* a known dependency that is dropped without recording the edge
PopExistingNoEdge ==
    /\ InRec("loop")
    /\ Top.remaining_deps # <<>>
    /\ LET index == PopIndex(Top.remaining_deps)
           dependency == Top.remaining_deps[index]
       IN  /\ Known(map, dependency)
           /\ stack' = SetTop([Top EXCEPT !.remaining_deps = RemoveAt(@, index)])
    /\ UNCHANGED <<root_pkg, deps, registry, map, graph, pc, fetches, outcome, run, prev>>
    /\ UNCHANGED matcherVars

\* lines 68-74 and 96-99: a dependency that is in the map already
PopExisting ==
    /\ InRec("loop")
    /\ Top.remaining_deps # <<>>
    /\ LET index == PopIndex(Top.remaining_deps)
           dependency == Top.remaining_deps[index]
       IN  /\ Known(map, dependency)
           /\ graph' = add_edge(graph, get_by_first(map, dependency).id, Top.curr_node)
           /\ stack' = SetTop([Top EXCEPT !.remaining_deps = RemoveAt(@, index)])
    /\ UNCHANGED <<root_pkg, deps, registry, map, pc, fetches, outcome, run, prev>>
    /\ UNCHANGED matcherVars

\* line 82: fetch_package_root_metadata(&dependency)?
FetchRootMetadata ==
    /\ InRec("fetch_root")
    /\ fetches' = Append(fetches, [kind |-> "root", dep |-> Top.dependency,
                                   name |-> Top.dependency.name, version |-> ""])
    /\ LET reply == registry.root[Top.dependency.name]
       IN  IF reply.tag = "err"
           THEN Fail(RegistryFetchError(<<Top.dependency.name>>))
           ELSE /\ stack' = SetTop([Top EXCEPT !.at = "match", !.data = reply.body])
                /\ UNCHANGED <<pc, outcome>>
    /\ UNCHANGED <<root_pkg, deps, registry, map, graph, run, prev>>
    /\ UNCHANGED matcherVars

\* line 86: fetch_matching_version_metadata(&dependency, &root_metadata)?
MatchVersion ==
    /\ InRec("match")
    /\ LET matching_version == fetch_matching_version_metadata(Top.dependency, Top.data).res
       IN  IF matching_version.tag = "err"
           THEN Fail(matching_version)
           ELSE /\ stack' = SetTop([Top EXCEPT !.at = "fetch_version",
                                               !.data = matching_version.version])
                /\ UNCHANGED <<pc, outcome>>
    /\ UNCHANGED <<root_pkg, deps, registry, map, graph, fetches, run, prev>>
    /\ UNCHANGED matcherVars

\* line 89: fetch_package_version_metadata(&dependency, &matching_version.0)?
FetchVersionMetadata ==
    /\ InRec("fetch_version")
    /\ fetches' = Append(fetches, [kind |-> "version", dep |-> Top.dependency,
                                   name |-> Top.dependency.name, version |-> Top.data])
    /\ LET reply == registry.version[<<Top.dependency.name, Top.data>>]
       IN  IF reply.tag = "err"
           THEN Fail(RegistryFetchError(<<Top.dependency.name, Top.data>>))
           ELSE /\ stack' = SetTop([Top EXCEPT !.at = "adapt", !.data = reply.body])
                /\ UNCHANGED <<pc, outcome>>
    /\ UNCHANGED <<root_pkg, deps, registry, map, graph, run, prev>>
    /\ UNCHANGED matcherVars

\* line 93: serde_json_value_to_dependencies(&package_metadata["dependencies"])?
Adapt ==
    /\ InRec("adapt")
    /\ LET new_deps == serde_json_value_to_dependencies(Top.data.dependencies)
       IN  IF new_deps.tag = "ok"
           THEN /\ stack' = SetTop([Top EXCEPT !.at = "call", !.data = new_deps.deps])
                /\ UNCHANGED <<pc, outcome>>
           ELSE Crash
    /\ UNCHANGED <<root_pkg, deps, registry, map, graph, fetches, run, prev>>
    /\ UNCHANGED matcherVars

\* line 95: calculate_depends_rec(&dependency, &new_deps, map, graph)?
Recurse ==
    /\ InRec("call")
    /\ LET entered == Enter(Top.dependency, Top.data)
       IN  IF entered.tag = "panic"
           THEN Crash
           ELSE /\ stack' = SetTop([Top EXCEPT !.at = "loop", !.data = None])
                               \o entered.frames
                /\ UNCHANGED <<pc, outcome>>
    /\ UNCHANGED <<root_pkg, deps, registry, map, graph, fetches, run, prev>>
    /\ UNCHANGED matcherVars

\* lines 68 and 102: the loop is over, Ok(()) goes to the caller
Return ==
    /\ InRec("loop")
    /\ Top.remaining_deps = <<>>
    /\ stack' = SubSeq(stack, 1, Len(stack) - 1)
    /\ pc' = IF stack' = <<>> THEN "toposort" ELSE "rec"
    /\ UNCHANGED <<root_pkg, deps, registry, map, graph, fetches, outcome, run, prev>>
    /\ UNCHANGED matcherVars

\* lines 35-51: the topological sort and the ordered dependencies
Sort ==
    /\ pc = "toposort"
    /\ \E ids \in NodeOrders(graph) :
           /\ outcome' = LinearizeOver(map, graph, ids)
           /\ map' = LinearizedMapOver(map, graph, ids)
    /\ pc' = "done"
    /\ UNCHANGED <<root_pkg, deps, registry, graph, stack, fetches, run, prev>>
    /\ UNCHANGED matcherVars

Next ==
    \/ Call
    \/ PopNew
    \/ PopExisting
    \/ FetchRootMetadata
    \/ MatchVersion
    \/ FetchVersionMetadata
    \/ Adapt
    \/ Recurse
    \/ Return
    \/ Sort

Spec == Init /\ [][Next]_vars

(***************************************************************************)
(* Two calls of calculate_depends in a row, on the same root_pkg and deps  *)
(* and against the same registry responses: the registry of the second     *)
(* call answers every request the first call sent as it was answered then; *)
(* what it would answer to a request that was not sent is free             *)
(***************************************************************************)
\* what the registry r answers to a request
ReplyOf(r, request) ==
    IF request.kind = "root" THEN r.root[request.name]
    ELSE r.version[<<request.name, request.version>>]

\* r answers the requests sent so far as the registry of this call did
SameResponses(r) ==
    \A i \in DOMAIN fetches : ReplyOf(r, fetches[i]) = ReplyOf(registry, fetches[i])

CallAgain ==
    /\ pc = "done"
    /\ run = 1
    /\ run' = 2
    /\ prev' = outcome
    /\ map' = NewMap(root_pkg)
    /\ graph' = NewGraph
    /\ stack' = <<>>
    /\ pc' = "start"
    /\ fetches' = <<>>
    /\ outcome' = Running
    /\ registry' \in {r \in Registries : SameResponses(r)}
    /\ UNCHANGED <<root_pkg, deps>>
    /\ UNCHANGED matcherVars

NextTwice == Next \/ CallAgain

SpecTwice == Init /\ [][NextTwice]_vars

(***************************************************************************)
(* The version matcher on its own: every constraint of the model against   *)
(* every "versions" object of at most MaxVersions distinct keys            *)
(***************************************************************************)
VersionLists == {ks \in SeqsUpTo(VersionStrings, MaxVersions) : NoDup(ks)}

InitMatch ==
    /\ root_pkg = R
    /\ deps = <<>>
    /\ registry = None
    /\ map = <<>>
    /\ graph = NewGraph
    /\ stack = <<>>
    /\ pc = "idle"
    /\ fetches = <<>>
    /\ outcome = Running
    /\ run = 1
    /\ prev = None
    /\ m_dep \in {Dependency("a", c) : c \in ConstraintStrings}
    /\ m_meta \in {VersionsJson(ks) : ks \in VersionLists} \cup {[versions |-> JNull]}
    /\ m_res = None
    /\ i_res = None

CallMatch ==
    /\ m_res = None
    /\ m_res' = fetch_matching_version_metadata(m_dep, m_meta)
    /\ UNCHANGED <<m_dep, m_meta, i_res>>
    /\ UNCHANGED resolverVars

NextMatch == CallMatch

SpecMatch == InitMatch /\ [][NextMatch]_vars

(***************************************************************************)
(* lib.rs: install_dep, on the metadata fetch_package_root_metadata gave   *)
(* it.  The download, the cache and the unpacking are outside the model:   *)
(* they succeed or fail.                                                   *)
(***************************************************************************)
\* Value::index: the member of an object, Null for anything else
JGet(v, key) ==
    IF v.type = "object" /\ \E k \in DOMAIN v.entries : v.entries[k].key = key
    THEN v.entries[CHOOSE k \in DOMAIN v.entries : v.entries[k].key = key].value
    ELSE JNull

\* dep.version.starts_with("git://")
starts_with_git(s) == s \in {"git://c"}

TarballError == Err("InstallError", "tarball")      \* "tarball URL didn't convert to string"
UrlParseError == Err("InstallError", "url")         \* "Couldn't parse URL"
UnpackError == Err("InstallError", "unpack")        \* cache, gunzip, unpack_archive
GitError == Err("InstallError", "git")              \* Repository::clone, revparse_single

\* the strings a "tarball" member holds; Url::parse takes the absolute URL
\* and refuses the others ("relative URL without a base")
TarballStrings == {"https://t", "x"}

UrlParse(s) == IF s \in {"https://t"} THEN [tag |-> "ok", url |-> s] ELSE [tag |-> "err"]

\* the request fetch_package_root_metadata sends for dep
RootRequest(dep) == [kind |-> "root", dep |-> dep, name |-> dep.name, version |-> ""]

Installed(selected, visited) ==
    [res |-> [tag |-> "ok"], selected |-> selected, visited |-> visited]

NotInstalled(e, selected, visited) ==
    [res |-> e, selected |-> selected, visited |-> visited]

\* the for loop of lines 63-90, from the k-th visited entry on
RECURSIVE InstallLoop(_, _, _, _, _)
InstallLoop(required_version, versions, order, k, unpacked) ==
    IF k > Len(order)
    THEN Installed(None, order)
    ELSE LET version == versions[order[k]]
             parsed == VersionParse(version.key)
             seen == SubSeq(order, 1, k)
         IN  IF parsed.tag = "err"
             THEN NotInstalled(VersionParseError(version.key), None, seen)
             ELSE IF RangeTest(required_version, parsed.v)
             THEN IF as_str(JGet(JGet(version.value, "dist"), "tarball")) = None
                  THEN NotInstalled(TarballError, [tag |-> "some", version |-> version.key], seen)
                  ELSE IF UrlParse(as_str(JGet(JGet(version.value, "dist"), "tarball")).str).tag = "err"
                  THEN NotInstalled(UrlParseError, [tag |-> "some", version |-> version.key], seen)
                  ELSE IF ~unpacked
                  THEN NotInstalled(UnpackError, [tag |-> "some", version |-> version.key], seen)
                  ELSE Installed([tag |-> "some", version |-> version.key], seen)
             ELSE InstallLoop(required_version, versions, order, k + 1, unpacked)

\* res: Ok(()) or the error; selected: the version whose tarball was asked
\* for; requests: the registry requests the call sent; answered: line 56
\* got its metadata; reply: what the registry answers to line 56; cloned,
\* unpacked: whether the git clone and the unpacking succeed
install_dep(dep, reply, cloned, unpacked) ==
    LET required_version == RangeParse(dep.version)
        Sent(r, requests) == [res |-> r.res, selected |-> r.selected,
                              visited |-> r.visited, requests |-> requests,
                              answered |-> requests # <<>> /\ reply.tag = "ok"]
    IN  IF required_version.tag = "err"
        THEN Sent(NotInstalled(ConstraintParseError(dep), None, <<>>), <<>>)
        ELSE IF starts_with_git(dep.version)
        THEN Sent(IF cloned THEN Installed(None, <<>>) ELSE NotInstalled(GitError, None, <<>>),
                  <<>>)
        ELSE IF reply.tag = "err"
        THEN Sent(NotInstalled(RegistryFetchError(<<dep.name>>), None, <<>>),
                  <<RootRequest(dep)>>)
        ELSE LET versions == as_object(reply.body.versions)
             IN  IF versions = None
                 THEN Sent(NotInstalled(VersionsNotObject, None, <<>>), <<RootRequest(dep)>>)
                 ELSE Sent(InstallLoop(required_version, versions.entries,
                                       VisitOrder(Len(versions.entries)), 1, unpacked),
                           <<RootRequest(dep)>>)

\* {"versions": {key: {"dist": {"tarball": tarball}}, ...}}
VersionsJsonDist(keys, tarball) ==
    [versions |-> JObject([i \in 1..Len(keys) |->
        JEntry(keys[i], JObject(<<JEntry("dist",
                            JObject(<<JEntry("tarball", tarball)>>))>>))])]

\* what a "tarball" member is: a URL, a string that is no URL, no string
Tarballs == {JString(t) : t \in TarballStrings} \cup {JNull}

InitInstall ==
    /\ root_pkg = R
    /\ deps = <<>>
    /\ registry = None
    /\ map = <<>>
    /\ graph = NewGraph
    /\ stack = <<>>
    /\ pc = "idle"
    /\ fetches = <<>>
    /\ outcome = Running
    /\ run = 1
    /\ prev = None
    /\ m_dep \in {Dependency("a", c) : c \in ConstraintStrings}
    /\ m_meta \in {VersionsJsonDist(ks, t) : ks \in VersionLists, t \in Tarballs}
                    \cup {[versions |-> JNull]}
    /\ m_res = None
    /\ i_res = None

\* the registry answers line 56 with m_meta, or the request fails
CallInstall ==
    /\ i_res = None
    /\ \E reply \in {Response(m_meta), Failure}, cloned, unpacked \in BOOLEAN :
           i_res' = install_dep(m_dep, reply, cloned, unpacked)
    /\ fetches' = fetches \o i_res'.requests
    /\ UNCHANGED <<m_dep, m_meta, m_res>>
    /\ UNCHANGED <<root_pkg, deps, registry, map, graph, stack, pc, outcome, run, prev>>

NextInstall == CallMatch \/ CallInstall

SpecInstall == InitInstall /\ [][NextInstall]_vars

(***************************************************************************)
(* What the registry makes every identity declare, computed from the       *)
(* registry alone                                                          *)
(***************************************************************************)
Identities == {A, A2, B, C, X, R}

\* the dependencies of identity d: those of the manifest for the root, those
\* of the selected version for any other identity
DeclaredOf(d) ==
    IF d = root_pkg THEN [tag |-> "ok", deps |-> deps]
    ELSE LET root_metadata == registry.root[d.name]
         IN  IF root_metadata.tag = "err" THEN Failure
             ELSE LET matching == fetch_matching_version_metadata(d, root_metadata.body).res
                  IN  IF matching.tag = "err" THEN matching
                      ELSE LET package_metadata == registry.version[<<d.name, matching.version>>]
                           IN  IF package_metadata.tag = "err" THEN Failure
                               ELSE serde_json_value_to_dependencies(
                                        package_metadata.body.dependencies)

DeclaredSet(d) == IF DeclaredOf(d).tag = "ok" THEN Range(DeclaredOf(d).deps) ELSE {}

RECURSIVE Closure(_)
Closure(S) ==
    LET more == S \cup UNION {DeclaredSet(d) : d \in S}
    IN  IF more = S THEN S ELSE Closure(more)

\* the identities reachable from the root's declared dependencies
Reachable == Closure(Range(deps))

AllSucceed == \A d \in Reachable \cup {root_pkg} : DeclaredOf(d).tag = "ok"

DeclaredCycle == \E x \in Reachable : x \in Closure(DeclaredSet(x))

Finished == pc = "done"

Succeeded == pc = "done" /\ outcome.tag = "ok"

IdOf(d) == get_by_first(map, d).id

FetchCount(kind, d) ==
    Cardinality({i \in DOMAIN fetches : fetches[i].kind = kind /\ fetches[i].dep = d})

(***************************************************************************)
(* Properties                                                              *)
(***************************************************************************)

\* C1: topological validity.  When calculate_depends succeeds, for every
\* edge (a -> b) of the graph the Dependency of a is in the returned
\* sequence strictly before the Dependency of b.
\* (the map of the state before the return tells the Dependency of a node:
\* the loop of lines 42-49 takes out of the map what it returns)
C1_TopologicalValidity ==
    [][(pc = "toposort" /\ outcome'.tag = "ok") =>
           \A e \in graph.edges :
               LET da == get_by_second(map, e[1])
                   db == get_by_second(map, e[2])
               IN  /\ da # None /\ db # None
                   /\ da.dep \in Range(outcome'.ordered)
                   /\ db.dep \in Range(outcome'.ordered)
                   /\ \A i, j \in DOMAIN outcome'.ordered :
                          (outcome'.ordered[i] = da.dep /\ outcome'.ordered[j] = db.dep)
                              => i < j]_vars

\* a successful run over a diamond: one dependency shared by two packages
C1_Witness ==
    /\ Succeeded
    /\ Cardinality(graph.edges) >= 4
    /\ \E n \in Range(graph.nodes) :
           Cardinality({e \in graph.edges : e[1] = n}) >= 2

\* C2: cycle detection.  When every fetch and match succeeds and some
\* reachable identity declares itself, directly or transitively, the run
\* ends with CyclicDependencyError and returns no sequence.
C2_CycleDetected ==
    (Finished /\ AllSucceed /\ DeclaredCycle) =>
        /\ outcome.tag = "err"
        /\ outcome.kind = "CyclicDependencyError"

\* a cycle of two packages away from the root (a -> b -> a) was reported
C2_Witness ==
    /\ Finished /\ AllSucceed /\ DeclaredCycle
    /\ root_pkg \notin Reachable
    /\ \A x \in Reachable : x \notin DeclaredSet(x)
    /\ outcome.tag = "err" /\ outcome.kind = "CyclicDependencyError"

\* C3: memoization.  In one run the registry is asked for the declared
\* dependencies of a (name, constraint) pair at most once, and in a
\* successful run exactly once for every identity of the map but the root:
\* of the map as expansion leaves it, and of the sequence returned.
C3_Memoization ==
    /\ \A d \in Identities : FetchCount("version", d) <= 1
    /\ \A d \in Identities : FetchCount("root", d) <= 1
    /\ pc = "toposort" =>
           \A k \in DOMAIN map :
               map[k].second # 0 => FetchCount("version", map[k].first) = 1
    /\ Succeeded =>
           \A d \in Range(outcome.ordered) \ {root_pkg} : FetchCount("version", d) = 1

\* a successful run in which b was declared by two packages and fetched once
C3_Witness ==
    /\ Succeeded
    /\ B \in Range(outcome.ordered)
    /\ Cardinality({x \in Reachable \cup {root_pkg} : B \in DeclaredSet(x)}) >= 2
    /\ Cardinality({e \in graph.edges : e[2] # 0}) >= 1
    /\ FetchCount("version", B) = 1

\* C4: node identity.  Two pairs of the map have the same id exactly when
\* they have the same name and the same constraint; every identity met in
\* an expansion that came to its end has a pair in the map, is a node of the
\* graph and was fetched on its own, so a name met with two constraints
\* gives two nodes.
C4_NodeIdentity ==
    /\ \A i, j \in DOMAIN map :
           (map[i].first = map[j].first) <=> (map[i].second = map[j].second)
    /\ pc = "toposort" =>
           \A d \in Reachable \ {root_pkg} :
               /\ \E k \in DOMAIN map : map[k].first = d
               /\ HasNode(graph, IdOf(d))
               /\ FetchCount("root", d) = 1
               /\ FetchCount("version", d) = 1

\* an expansion that met a ^1.0.0 and a ^2.0.0 and is over
C4_Witness ==
    /\ pc = "toposort"
    /\ AllSucceed /\ ~DeclaredCycle
    /\ {A, A2} \subseteq Reachable
    /\ contains_first_key(map, A) /\ contains_first_key(map, A2)
    /\ IdOf(A) # IdOf(A2)

(***************************************************************************)
(* The matcher's inputs and result, read off the matcher variables         *)
(***************************************************************************)
Matched == m_res # None

MatchKeys ==
    IF as_object(m_meta.versions) = None THEN <<>>
    ELSE [i \in 1..Len(m_meta.versions.entries) |-> m_meta.versions.entries[i].key]

ConstraintParses == RangeParse(m_dep.version).tag = "ok"

Parses(i) == VersionParse(MatchKeys[i]).tag = "ok"

Satisfies(i) ==
    /\ Parses(i)
    /\ RangeTest(RangeParse(m_dep.version), VersionParse(MatchKeys[i]).v)

Satisfying == {i \in DOMAIN MatchKeys : Satisfies(i)}

Greatest(S) == CHOOSE i \in S : \A j \in S : j <= i

\* every entry the reverse iteration visits parses: all of them when none
\* satisfies, otherwise those after the last satisfying one
VisitedAllParse ==
    \A i \in DOMAIN MatchKeys :
        (Satisfying = {} \/ i > Greatest(Satisfying)) => Parses(i)

\* an entry that does not parse is met before any satisfying entry
UnparsableMetFirst ==
    \E i \in DOMAIN MatchKeys :
        ~Parses(i) /\ \A j \in DOMAIN MatchKeys : j > i => ~Satisfies(j)

FirstUnparsable == Greatest({i \in DOMAIN MatchKeys : ~Parses(i)})

\* C5: the matcher's result.  For a constraint that parses and versions
\* whose visited entries all parse, the result is the satisfying version
\* with the greatest position, and the failure is NoMatchingVersionError
\* exactly when no version satisfies; with the two cases of the text.
C5_MatcherResult ==
    (Matched /\ ConstraintParses /\ as_object(m_meta.versions) # None /\ VisitedAllParse) =>
        /\ Satisfying # {} =>
               m_res.res = [tag |-> "ok", version |-> MatchKeys[Greatest(Satisfying)]]
        /\ (m_res.res = NoMatchingVersionError) <=> (Satisfying = {})
        /\ (m_dep.version = "^1.2.0" /\ MatchKeys = <<"1.1.0", "1.2.5", "2.0.0">>) =>
               m_res.res = [tag |-> "ok", version |-> "1.2.5"]
        /\ (m_dep.version = "^3.0.0" /\ MatchKeys = <<"1.1.0", "1.2.5">>) =>
               m_res.res = NoMatchingVersionError

\* two versions satisfy and the later one was returned
C5_Witness ==
    /\ Matched /\ ConstraintParses /\ VisitedAllParse
    /\ Cardinality(Satisfying) >= 2
    /\ Greatest(Satisfying) < Len(MatchKeys)
    /\ m_res.res.tag = "ok"
    /\ m_res.res.version = MatchKeys[Greatest(Satisfying)]

\* C6: no version is skipped.  When the reverse iteration meets a version
\* that does not parse before a satisfying one, the result is
\* VersionParseError for that version; a constraint that does not parse
\* gives ConstraintParseError with no version examined.
C6_NoSilentSkip ==
    Matched =>
        /\ ~ConstraintParses =>
               /\ m_res.res = ConstraintParseError(m_dep)
               /\ m_res.visited = <<>>
        /\ (ConstraintParses /\ UnparsableMetFirst) =>
               /\ m_res.res = VersionParseError(MatchKeys[FirstUnparsable])
               /\ m_res.visited # <<>>
               /\ m_res.visited[Len(m_res.visited)] = FirstUnparsable

\* an unparsable version sits between the end and a satisfying version
C6_Witness ==
    /\ Matched /\ ConstraintParses /\ UnparsableMetFirst
    /\ Satisfying # {}
    /\ FirstUnparsable < Len(MatchKeys)
    /\ m_res.res.tag = "err" /\ m_res.res.kind = "VersionParseError"

(***************************************************************************)
(* Failing steps of a run, read off the request log and the registry       *)
(***************************************************************************)
\* the reply the registry gives to the i-th request
ReplyTo(i) == ReplyOf(registry, fetches[i])

\* the error of the i-th request, or of the match that follows it, or None
ErrorAt(i) ==
    IF ReplyTo(i).tag = "err"
    THEN RegistryFetchError(IF fetches[i].kind = "root"
                            THEN <<fetches[i].name>>
                            ELSE <<fetches[i].name, fetches[i].version>>)
    ELSE IF fetches[i].kind = "root"
              /\ fetch_matching_version_metadata(fetches[i].dep, ReplyTo(i).body).res.tag = "err"
    THEN fetch_matching_version_metadata(fetches[i].dep, ReplyTo(i).body).res
    ELSE None

\* the match that follows the last request has not run yet
MatchPending == stack # <<>> /\ Top.at = "match"

\* C7: abort on error.  A request that fails, or whose match fails, is the
\* last request of the run and was made once; the run is then over with
\* that error as its outcome, and an outcome that is an error of a fetch or
\* of a match leaves no activation behind.
C7_AbortOnError ==
    /\ \A i \in DOMAIN fetches :
           (ErrorAt(i) # None /\ ~(i = Len(fetches) /\ MatchPending)) =>
               /\ i = Len(fetches)
               /\ \A j \in DOMAIN fetches : fetches[j] = fetches[i] => j = i
               /\ pc = "done"
               /\ stack = <<>>
               /\ outcome = ErrorAt(i)
    /\ (outcome.tag = "err" /\ outcome.kind # "CyclicDependencyError") =>
           /\ pc = "done" /\ stack = <<>>
           /\ fetches # <<>> /\ outcome = ErrorAt(Len(fetches))

\* a fetch failed two levels down, after other packages had been expanded
C7_Witness ==
    /\ pc = "done"
    /\ outcome.tag = "err" /\ outcome.kind = "RegistryFetchError"
    /\ Len(fetches) >= 5
    /\ Len(map) >= 3
    /\ graph.edges # {}

C9_RootLast ==
    Succeeded =>
        /\ outcome.ordered # <<>>
        /\ outcome.ordered[Len(outcome.ordered)] = root_pkg

\* a dependency mapping with an entry that is not reserved and whose
\* constraint is not a string
Malformed(json) ==
    /\ as_object(json) # None
    /\ \E k \in DOMAIN json.entries :
           /\ ~starts_with_underscore(json.entries[k].key)
           /\ as_str(json.entries[k].value) = None

\* the last version metadata fetched has been adapted and it is malformed
AdaptedMalformed ==
    /\ pc = "done"
    /\ fetches # <<>>
    /\ fetches[Len(fetches)].kind = "version"
    /\ ReplyTo(Len(fetches)).tag = "ok"
    /\ Malformed(ReplyTo(Len(fetches)).body.dependencies)

\* C10: manifest adaptation error.  Adapting a mapping with a malformed
\* entry ends the run with ManifestShapeError as an error value, and no
\* run ends in a crash.
C10_ManifestShapeError ==
    /\ outcome # Panic
    /\ AdaptedMalformed => (outcome.tag = "err" /\ outcome.kind = "ManifestShapeError")

\* C11: installer and resolver agree.  On the same dependency and the same
\* version list (the installer's own request for it was answered)
\* install_dep selects the version the matcher returns, and
\* ends with the matcher's error whenever the matcher ends with one,
\* NoMatchingVersionError included.
C11_InstallerAgrees ==
    (m_res # None /\ i_res # None /\ (i_res.requests # <<>> => i_res.answered)) =>
        /\ m_res.res.tag = "ok" =>
               i_res.selected = [tag |-> "some", version |-> m_res.res.version]
        /\ m_res.res.tag = "err" => i_res.res = m_res.res

(***************************************************************************)
(* Paths of the graph                                                      *)
(***************************************************************************)
Successors(E, S) == {e[2] : e \in {f \in E : f[1] \in S}}

RECURSIVE ReachVia(_, _)
ReachVia(E, S) ==
    LET more == S \cup Successors(E, S)
    IN  IF more = S THEN S ELSE ReachVia(E, more)

\* n lies on a cycle: a self-loop or a longer way back to itself
OnCycle(E, n) == n \in ReachVia(E, Successors(E, {n}))

Acyclic(E) == \A e \in E : ~OnCycle(E, e[1])

\* C12: actionable cycle error.  The Dependency a CyclicDependencyError
\* carries was found in the map, and its node lies on a cycle of the graph.
C12_CycleErrorNamesCycleNode ==
    (outcome.tag = "err" /\ outcome.kind = "CyclicDependencyError") =>
        /\ outcome.about # None
        /\ contains_first_key(map, outcome.about.dep)
        /\ OnCycle(graph.edges, IdOf(outcome.about.dep))

\* a cycle was reported in a graph that also has nodes off every cycle
C12_Witness ==
    /\ outcome.tag = "err" /\ outcome.kind = "CyclicDependencyError"
    /\ outcome.about # None
    /\ OnCycle(graph.edges, IdOf(outcome.about.dep))
    /\ \E n \in Range(graph.nodes) : ~OnCycle(graph.edges, n)

\* C13: root node invariant.  Node 0 is a node of the graph from the
\* initial state of a run on, whatever deps is.
C13_RootNodePresent == pc \in {"start", "rec", "toposort", "done"} => HasNode(graph, 0)

\* the dependencies met for the first time so far, the root aside: those
\* whose metadata was asked for and the one about to be asked for
MetSoFar ==
    {fetches[i].dep : i \in {j \in DOMAIN fetches : fetches[j].kind = "root"}}
        \cup (IF InRec("fetch_root") THEN {Top.dependency} ELSE {})

DenseIdentities ==
    pc \in {"start", "rec", "toposort"} =>
        /\ \A k \in DOMAIN map : map[k].second = k - 1
        /\ map[1].first = root_pkg
        /\ \A i, j \in DOMAIN map : map[i].first = map[j].first => i = j
        /\ Len(map) = 1 + Cardinality(MetSoFar)
        /\ \A n \in Range(graph.nodes) : contains_second_key(map, n)

\* C14: dense identities.  In every state of the expansion the ids of the
\* map are 0 .. n-1 in order of first encounter, n being the number of
\* distinct dependencies met, the root has id 0, every graph node is an id
\* of the map, and a step of the expansion only appends to the map: no pair
\* changes or goes away.
C14_DenseStableIdentities ==
    /\ []DenseIdentities
    /\ [][pc # "toposort" => Len(map') >= Len(map) /\ SubSeq(map', 1, Len(map)) = map]_vars

\* four identities have been handed ids 0 to 3
C14_Witness ==
    /\ pc = "rec"
    /\ Len(map) = 4
    /\ {map[k].second : k \in DOMAIN map} = 0..3
    /\ Len(stack) >= 2

\* C15: every non-root node was declared.  In every state of the expansion, the
\* states between a node's creation and its fetch included, a node other
\* than 0 has an outgoing edge, and each of its outgoing edges ends in a
\* node whose declared dependencies contain it.
C15_NonRootNodesDeclared ==
    pc \in {"start", "rec", "toposort"} =>
        /\ \A n \in Range(graph.nodes) :
               n # 0 => \E e \in graph.edges : e[1] = n
        /\ \A e \in graph.edges :
               e[1] # 0 =>
                   /\ get_by_second(map, e[1]) # None
                   /\ get_by_second(map, e[2]) # None
                   /\ get_by_second(map, e[1]).dep
                          \in DeclaredSet(get_by_second(map, e[2]).dep)

\* a dependency of a dependency has its node and is not fetched yet
C15_Witness ==
    /\ InRec("fetch_root")
    /\ Len(stack) >= 2
    /\ FetchCount("root", Top.dependency) = 0
    /\ \E e \in graph.edges : e[1] = IdOf(Top.dependency) /\ e[2] = Top.curr_node

\* the loop is about to pop a dependency that is in the map already
ReEncounter ==
    /\ InRec("loop")
    /\ Top.remaining_deps # <<>>
    /\ Known(map, Top.remaining_deps[PopIndex(Top.remaining_deps)])

ReEncounteredEdge ==
    <<IdOf(Top.remaining_deps[PopIndex(Top.remaining_deps)]), Top.curr_node>>

\* what a re-encounter leaves alone, the node set aside
ReEncounterFrame ==
    /\ map' = map
    /\ fetches' = fetches
    /\ Len(stack') = Len(stack)
    /\ stack'[Len(stack')].at = "loop"
    /\ graph'.edges \subseteq graph.edges \cup {ReEncounteredEdge}
    /\ graph.edges \subseteq graph'.edges
    /\ ReEncounteredEdge \in graph.edges => graph' = graph

\* C16: re-encounter frame.  Popping a dependency that is in the map leaves
\* the map and the node set unchanged, makes no request, starts no
\* recursion, and changes the edges by at most the one edge from the
\* existing node to the current node, never added twice.
C16_ReEncounterFrame ==
    [][ReEncounter => (ReEncounterFrame /\ graph'.nodes = graph.nodes)]_vars

(***************************************************************************)
(* The order in which a depth-first walk of the declared dependencies,     *)
(* last-declared first, meets identities for the first time                *)
(***************************************************************************)
DeclaredList(d) == IF DeclaredOf(d).tag = "ok" THEN DeclaredOf(d).deps ELSE <<>>

\* met: identities met so far, oldest first; list[1..k] is still to visit
RECURSIVE Walk(_, _, _)
Walk(list, k, met) ==
    IF k = 0 THEN met
    ELSE IF list[k] \in Range(met)
    THEN Walk(list, k - 1, met)
    ELSE Walk(list, k - 1,
              Walk(DeclaredList(list[k]), Len(DeclaredList(list[k])), Append(met, list[k])))

Preorder == Walk(deps, Len(deps), <<root_pkg>>)

IsPrefix(s, t) == Len(s) <= Len(t) /\ SubSeq(t, 1, Len(s)) = s

FetchedDeps(kind) ==
    LET RECURSIVE Sel(_)
        Sel(k) == IF k = 0 THEN <<>>
                  ELSE IF fetches[k].kind = kind THEN Append(Sel(k - 1), fetches[k].dep)
                  ELSE Sel(k - 1)
    IN  Sel(Len(fetches))

MapDeps == [k \in 1..Len(map) |-> map[k].first]

\* C17: visitation order.  Identities get their ids, and their requests
\* are issued, in the order of a depth-first walk that takes the siblings
\* last-declared first and finishes a subtree before the next sibling; a
\* new node has its id and its edge before its first request.
C17_VisitationOrder ==
    pc \in {"start", "rec", "toposort"} =>
        /\ IsPrefix(MapDeps, Preorder)
        /\ IsPrefix(<<root_pkg>> \o FetchedDeps("root"), MapDeps)
        /\ IsPrefix(FetchedDeps("version"), FetchedDeps("root"))
        /\ Len(FetchedDeps("root")) <= Len(FetchedDeps("version")) + 1
        /\ Len(MapDeps) <= Len(FetchedDeps("root")) + 2
        /\ \A i \in DOMAIN fetches :
               /\ contains_first_key(map, fetches[i].dep)
               /\ \E e \in graph.edges : e[1] = IdOf(fetches[i].dep)
        /\ InRec("fetch_root") =>
               /\ contains_first_key(map, Top.dependency)
               /\ <<IdOf(Top.dependency), Top.curr_node>> \in graph.edges
               /\ FetchCount("root", Top.dependency) = 0

\* two siblings were expanded, the last-declared one and its subtree first
C17_Witness ==
    /\ pc = "toposort"
    /\ Len(deps) = 2 /\ deps[1] # deps[2]
    /\ Len(map) >= 4
    /\ map[2].first = deps[2]
    /\ map[3].first \in DeclaredSet(deps[2])
    /\ map[Len(map)].first = deps[1]

(***************************************************************************)
(* Termination: a step that changes the state can be taken until the run   *)
(* is over, and every step lowers a natural number                         *)
(***************************************************************************)
PhaseRank(at) ==
    CASE at = "fetch_root" -> 5
      [] at = "match" -> 4
      [] at = "fetch_version" -> 3
      [] at = "adapt" -> 2
      [] at = "call" -> 1
      [] OTHER -> 0

\* the length of the longest list a package of the registries declares
DeclaredMost ==
    LET lens == {Len(l) : l \in DeclaredA1 \cup DeclaredA2 \cup DeclaredB}
    IN  CHOOSE n \in lens : \A k \in lens : k <= n

\* the work the list that a frame is about to hand to a new frame stands for
PendingRank(f) ==
    CASE f.at \in {"fetch_root", "match", "fetch_version", "adapt"} -> 2 * DeclaredMost + 2
      [] f.at = "call" -> 2 * Len(f.data) + 2
      [] OTHER -> 0

FrameRank(f) == 1 + 2 * Len(f.remaining_deps) + PhaseRank(f.at) + PendingRank(f)

PcRank(at) ==
    CASE at = "start" -> 2 * Len(deps) + 4
      [] at = "rec" -> 2
      [] at = "toposort" -> 1
      [] OTHER -> 0

RECURSIVE StackRank(_)
StackRank(frames) ==
    IF frames = <<>> THEN 0
    ELSE FrameRank(frames[Len(frames)]) + StackRank(SubSeq(frames, 1, Len(frames) - 1))

\* the work an identity stands for as long as it has not been met
UnmetRank(m, d) ==
    IF contains_first_key(m, d) THEN 0 ELSE 2 * DeclaredMost + 9

\* the rank of the position at, the frames and the identities met m
RankAt(at, frames, m) ==
    IF at = "done" THEN 0
    ELSE PcRank(at) + StackRank(frames) + UnmetRank(m, A) + UnmetRank(m, A2)
             + UnmetRank(m, B) + UnmetRank(m, C) + UnmetRank(m, X) + UnmetRank(m, R)

Rank == RankAt(pc, stack, map)

\* some step of the run that changes the state can be taken
CanStep ==
    CASE pc = "start" -> ENABLED <<Call>>_vars
      [] InRec("loop") ->
             \/ ENABLED <<PopNew>>_vars
             \/ ENABLED <<PopExisting>>_vars
             \/ ENABLED <<Return>>_vars
      [] InRec("fetch_root") -> ENABLED <<FetchRootMetadata>>_vars
      [] InRec("match") -> ENABLED <<MatchVersion>>_vars
      [] InRec("fetch_version") -> ENABLED <<FetchVersionMetadata>>_vars
      [] InRec("adapt") -> ENABLED <<Adapt>>_vars
      [] InRec("call") -> ENABLED <<Recurse>>_vars
      [] OTHER -> pc = "toposort"

\* a run that is not over can take a step, and Rank is a natural number
Progress ==
    /\ Rank >= 0
    /\ pc # "done" => CanStep

\* a run that is over has handed a sequence or an error to the caller
Returned == pc = "done" => outcome.tag \in {"ok", "err"}

ExpansionBounded ==
    pc \in {"start", "rec", "toposort", "done"} =>
        LET others == Cardinality(Reachable \ {root_pkg})
        IN  /\ Len(map) - 1 <= others
            /\ Len(FetchedDeps("root")) <= others
            /\ Len(stack) <= Len(map)

\* C18: termination.  A run that is not over can always take a step, every
\* step lowers Rank, which is never negative, so every run ends, also when
\* the declared dependencies form a cycle; a run that has ended returned a
\* sequence or an error; and a run never expands more nodes, nor asks for
\* more packages, than there are identities other than the root reachable
\* from the root.
C18_Termination ==
    /\ []Progress
    /\ [][RankAt(pc', stack', map') < Rank]_vars
    /\ []ExpansionBounded
    /\ []Returned

(***************************************************************************)
(* No false cycle errors                                                   *)
(***************************************************************************)
\* the nodes of the frames on the stack: the root and the nodes being expanded
OnPath == {stack[k].curr_node : k \in DOMAIN stack}

\* the step closes the first cycle of the graph
ClosesCycle == Acyclic(graph.edges) /\ ~Acyclic(graph'.edges)

\* the step re-encounters an identity whose node is on the recursion path
ReEncounterOnPath ==
    /\ ReEncounter
    /\ IdOf(Top.remaining_deps[PopIndex(Top.remaining_deps)]) \in OnPath
    /\ graph'.edges = graph.edges \cup {ReEncounteredEdge}

CycleError == outcome.tag = "err" /\ outcome.kind = "CyclicDependencyError"

NoFalseCycle ==
    /\ pc \in {"start", "rec"} => ~CycleError
    /\ Finished =>
           /\ (AllSucceed /\ ~DeclaredCycle) => outcome.tag = "ok"
           /\ CycleError => DeclaredCycle /\ ~Acyclic(graph.edges)

\* C19: no false cycle errors.  When every identity reachable from the root
\* yields its declared dependencies and no identity reaches itself through
\* them, the run succeeds; a CyclicDependencyError is returned only when the
\* declared dependencies and the graph have a cycle; and the graph gets its
\* first cycle only in a step that re-encounters an identity whose node is
\* the root or is being expanded on the current recursion path.
C19_NoFalseCycleErrors ==
    /\ []NoFalseCycle
    /\ [][ClosesCycle => ReEncounterOnPath]_vars

\* a successful run in which an identity was declared by two packages and
\* met again after its subtree had been expanded
C19_Witness ==
    /\ Succeeded
    /\ AllSucceed /\ ~DeclaredCycle
    /\ Len(outcome.ordered) >= 3
    /\ \E e \in graph.edges, f \in graph.edges : e[1] = f[1] /\ e[2] # f[2]

(***************************************************************************)
(* Closure completeness                                                    *)
(***************************************************************************)
\* C20: closure completeness.  The sequence of a successful run holds no
\* Dependency twice, and its elements other than the root are exactly the
\* identities reachable from the root's declared dependencies through the
\* declared dependencies of the selected versions.
C20_ClosureComplete ==
    Succeeded =>
        /\ NoDup(outcome.ordered)
        /\ Range(outcome.ordered) \ {root_pkg} = Reachable \ {root_pkg}

\* a successful run over two declared dependencies and one that only a
\* selected version declares
C20_Witness ==
    /\ Succeeded
    /\ Cardinality(Range(deps)) = 2
    /\ Cardinality(Reachable \ {root_pkg}) >= 3
    /\ Len(outcome.ordered) >= 4

====
